---- MODULE Spec2Model ----
(***************************************************************************)
(* Model of pipecleaner.py: the EveData polling engine (constructor retry  *)
(* loop, query(), latest(), update()) and the bounded snapshot histories.  *)
(* Times are wall-clock seconds as read through time.ctime().              *)
(***************************************************************************)
EXTENDS Integers, Sequences, FiniteSets, TLC

VARIABLES
    pc,               \* "constructing" | "ready" | "failed" (position of EveData())
    tries,            \* local `tries` of __init__ (0 once __init__ has returned)
    now,              \* wall clock, seconds
    systems_df,       \* static topology rows
    last_query_time,  \* None or the timestamp set by query()
    seeded,           \* the three *_history attributes exist
    kills_history,    \* Panel: timestamp -> kills_df
    jumps_history,    \* Panel: timestamp -> jumps_df
    sov_history,      \* Panel: timestamp -> sov_df
    ret,              \* outcome of the last latest()/update() call
    last,             \* the last operation and what it observed
    nq,               \* query() invocations made by the last operation
    nc,               \* API client calls made by the last operation
    updates,          \* update() calls so far
    refreshes,        \* successful refreshes through update() so far
    stamps,           \* every timestamp a snapshot was stored under
    answer,           \* raw API results of the last query() that returned
    req               \* per request thread: position inside update(), locals

vars == <<pc, tries, now, systems_df, last_query_time, seeded, kills_history,
          jumps_history, sov_history, ret, last, nq, nc, updates, refreshes,
          stamps, answer, req>>

\* ------------------------------------------------------------------ constants
update_interval == 1200
retry == 5
max_frames == 100

\* seconds in a day: Timedelta.seconds is the seconds component, 0..86399
DaySeconds == 86400

None == -1      \* last_query_time before the first successful API round
NaN == -1       \* missing value of a reindexed table (counts are >= 0)

\* ------------------------------------------------------------------ bounds
StartClock == 7200        \* wall clock when the process starts
MaxUpdates == 2           \* update() calls explored with every input
SteadyUpdates == 103      \* update() calls of the steady polling run
MaxSteadyFailures == 1    \* failed queries allowed in the steady polling run
MaxId == 3                \* system ids of the enumerated topologies: 1..MaxId
MaxRegion == 2            \* region ranks of the enumerated topologies
MaxRows == 3              \* rows of the enumerated topologies

\* clock readings: seconds elapsed between two readings of time.ctime();
\* time.ctime() is local time, so a reading can also go back (DST, clock set)
ClockSteps == {600, update_interval, update_interval + 1,
               DaySeconds + 600, 0 - 3600}
Latencies == {0, 2}       \* seconds spent inside the API round
SteadyStep == update_interval + 300

\* ------------------------------------------------------------------ inputs
Row(e, d, r) == [Entry_ID |-> e, Dest_ID |-> d, Dest_Region |-> r]

\* regions are compared as strings; a region is modelled by its rank
Topologies ==
    { << Row(1, 2, 2), Row(3, 4, 1) >>,
      << Row(1, 2, 1), Row(3, 2, 1), Row(1, 4, 2), Row(2, 1, 1) >> }

\* every topology file of at most MaxRows rows over the ids and regions
AllRows ==
    {Row(e, d, r) : e \in 1..MaxId, d \in 1..MaxId, r \in 1..MaxRegion}
MergeTopologies == UNION {[1..n -> AllRows] : n \in 1..MaxRows}

K(s, p) == [ship |-> s, pod |-> p]

Fn1(a, x) == [i \in {a} |-> x]
Fn2(a, x, b, y) == [i \in {a, b} |-> IF i = a THEN x ELSE y]
EmptyFn == [i \in {} |-> 0]

\* raw API results: the API omits systems without activity
Responses ==
    { [kills |-> Fn1(1, K(5, 1)), jumps |-> EmptyFn, sov |-> Fn1(1, 7)],
      [kills |-> Fn2(2, K(1, 0), 3, K(2, 2)), jumps |-> Fn2(1, 7, 2, 3),
       sov |-> Fn2(2, 8, 4, 9)] }

NoResponse == [kills |-> EmptyFn, jumps |-> EmptyFn, sov |-> EmptyFn]

SteadyResponse ==
    [kills |-> Fn1(1, K(5, 1)), jumps |-> EmptyFn, sov |-> Fn1(1, 7)]

\* how one call of query() ends: the first failing API call, a failure while
\* reshaping the results, or success
Outcomes == {"ok", "kills_error", "jumps_error", "sov_error", "reshape_error"}
ClientErrors == {"kills_error", "jumps_error", "sov_error"}

\* ------------------------------------------------------------------ __init__
\* system_ids = set(concat(Entry_ID, Dest_ID))
SystemIds(df) ==
    {df[i].Entry_ID : i \in DOMAIN df} \cup {df[i].Dest_ID : i \in DOMAIN df}

\* ------------------------------------------------------------------ query()
\* API calls made by one query(): the calls run in order and stop at the
\* first that raises
ClientCalls(o) ==
    CASE o = "kills_error" -> 1
      [] o = "jumps_error" -> 2
      [] OTHER -> 3

\* query() raises unless all three calls and the reshaping succeed
QueryRaises(o) == o # "ok"

\* last_query_time after query(): assigned in the else branch, as soon as the
\* three API calls have returned and before the results are reshaped
QueryTime(o, old, t) == IF o \in ClientErrors THEN old ELSE t

\* DataFrame(...).ix[system_ids]: one row per system id, NaN where the raw
\* result has no entry
ReindexKills(raw, ids) ==
    [i \in ids |-> IF i \in DOMAIN raw THEN raw[i] ELSE K(NaN, NaN)]

ReindexJumps(raw, ids) ==
    [i \in ids |-> [jumps |-> IF i \in DOMAIN raw THEN raw[i] ELSE NaN]]

ReindexSov(raw, ids) ==
    [i \in ids |-> [owner |-> IF i \in DOMAIN raw THEN raw[i] ELSE NaN]]

\* ------------------------------------------------------------------ Panel
\* panel[key] = frame
PanelSet(panel, key, frame) ==
    [t \in DOMAIN panel \cup {key} |-> IF t = key THEN frame ELSE panel[t]]

\* len(panel)
PanelLen(panel) == Cardinality(DOMAIN panel)

\* panel.index.min()
PanelMin(panel) == CHOOSE t \in DOMAIN panel : \A u \in DOMAIN panel : t <= u

\* del panel[key]
PanelDel(panel, key) == [t \in DOMAIN panel \ {key} |-> panel[t]]

\* Panel({key: frame})
PanelOf(key, frame) == [t \in {key} |-> frame]

NoPanel == [t \in {} |-> 0]

\* ------------------------------------------------------------------ latest()
\* a sort in descending key order
SortRowsDescending(rows, key) ==
    LET n == Len(rows)
        Rank(i) == Cardinality({j \in 1..n :
                        key[j] > key[i] \/ (key[j] = key[i] /\ j <= i)})
    IN  [p \in 1..n |-> rows[CHOOSE i \in 1..n : Rank(i) = p]]

\* sort_index() / sort_values(): rows in ascending key order, rows of equal
\* key in their previous order (the default quicksort of numpy sorts fewer
\* than 17 elements by insertion); key[i] is the sort key of rows[i]
SortRows(rows, key) ==
    LET n == Len(rows)
        Rank(i) == Cardinality({j \in 1..n :
                        key[j] < key[i] \/ (key[j] = key[i] /\ j <= i)})
    IN  [p \in 1..n |-> rows[CHOOSE i \in 1..n : Rank(i) = p]]

\* a merge that leaves the missing values in place
FillNaSkipped(v) == v

\* fillna(0)
FillNa(v) == IF v = NaN THEN 0 ELSE v

\* lines 101-115: the topology with the Entry_* and Dest_* columns attached
Merge(df, kills, jumps) ==
    LET byEntry == SortRows(df, [i \in DOMAIN df |-> df[i].Entry_ID])
        withEntry ==
            [i \in DOMAIN byEntry |->
                [Entry_ID |-> byEntry[i].Entry_ID,
                 Dest_ID |-> byEntry[i].Dest_ID,
                 Dest_Region |-> byEntry[i].Dest_Region,
                 Entry_ShipKills |-> kills[byEntry[i].Entry_ID].ship,
                 Entry_PodKills |-> kills[byEntry[i].Entry_ID].pod,
                 Entry_Jumps |-> jumps[byEntry[i].Entry_ID].jumps]]
        byDest == SortRows(withEntry,
                      [i \in DOMAIN withEntry |-> withEntry[i].Dest_ID])
        withDest ==
            [i \in DOMAIN byDest |->
                [Entry_ID |-> byDest[i].Entry_ID,
                 Dest_ID |-> byDest[i].Dest_ID,
                 Dest_Region |-> byDest[i].Dest_Region,
                 Entry_ShipKills |-> byDest[i].Entry_ShipKills,
                 Entry_PodKills |-> byDest[i].Entry_PodKills,
                 Entry_Jumps |-> byDest[i].Entry_Jumps,
                 Dest_ShipKills |-> kills[byDest[i].Dest_ID].ship,
                 Dest_PodKills |-> kills[byDest[i].Dest_ID].pod,
                 Dest_Jumps |-> jumps[byDest[i].Dest_ID].jumps]]
        byRegion == SortRows(withDest,
                      [i \in DOMAIN withDest |-> withDest[i].Dest_Region])
    IN  [i \in DOMAIN byRegion |->
            [Entry_ID |-> byRegion[i].Entry_ID,
             Dest_ID |-> byRegion[i].Dest_ID,
             Dest_Region |-> byRegion[i].Dest_Region,
             Entry_ShipKills |-> FillNa(byRegion[i].Entry_ShipKills),
             Entry_PodKills |-> FillNa(byRegion[i].Entry_PodKills),
             Entry_Jumps |-> FillNa(byRegion[i].Entry_Jumps),
             Dest_ShipKills |-> FillNa(byRegion[i].Dest_ShipKills),
             Dest_PodKills |-> FillNa(byRegion[i].Dest_PodKills),
             Dest_Jumps |-> FillNa(byRegion[i].Dest_Jumps)]]

\* what a call returns or raises
Returned(ts, merged) ==
    [status |-> "returned", exc |-> "", ts |-> ts, merged |-> merged]
Raised(exc) == [status |-> "raised", exc |-> exc, ts |-> None, merged |-> << >>]
NoCall == [status |-> "none", exc |-> "", ts |-> None, merged |-> << >>]

\* latest() on the state (df, has, lqt, kills, jumps): the attribute and Panel
\* lookups of lines 98-99 may raise, otherwise (last_query_time, merged)
Latest(df, has, lqt, kills, jumps) ==
    IF ~has THEN Raised("AttributeError")
    ELSE IF lqt \notin DOMAIN kills \/ lqt \notin DOMAIN jumps
         THEN Raised("KeyError")
         ELSE Returned(lqt, Merge(df, kills[lqt], jumps[lqt]))

\* ------------------------------------------------------------------ state
\* the operation, how its query ended ("none": no query) and its clock reading
Op(op, outcome, cur_time) ==
    [op |-> op, outcome |-> outcome, cur_time |-> cur_time]

\* request threads of the serving layer (routes region and sortby)
Requests == {1, 2}

\* a request thread outside update()
Idle == [pc |-> "idle", cur_time |-> 0, resp |-> NoResponse]

\* the process before EveData() runs, the topology file being one of `tops`
Boot(tops) ==
    /\ pc = "constructing"
    /\ tries = 0
    /\ now = StartClock
    /\ systems_df \in tops
    /\ last_query_time = None
    /\ seeded = FALSE
    /\ kills_history = NoPanel
    /\ jumps_history = NoPanel
    /\ sov_history = NoPanel
    /\ ret = NoCall
    /\ last = Op("none", "none", StartClock)
    /\ nq = 0
    /\ nc = 0
    /\ updates = 0
    /\ refreshes = 0
    /\ stamps = {}
    /\ answer = NoResponse
    /\ req = [r \in Requests |-> Idle]

Init == Boot(Topologies)

\* ------------------------------------------------------------------ __init__
\* one pass of the retry loop of EveData.__init__ (lines 48-62): query() takes
\* `lat` seconds and ends as `o`, the API answering `resp`
InitPass(lat, o, resp) ==
    LET ids == SystemIds(systems_df)
        t == now + lat
        lqt == QueryTime(o, last_query_time, t)
        tries1 == IF QueryRaises(o) THEN tries + 1 ELSE tries
    IN  /\ pc = "constructing"
        /\ now' = t
        /\ last_query_time' = lqt
        /\ tries' = IF tries1 < retry /\ lqt # None THEN 0 ELSE tries1
        /\ IF QueryRaises(o)
           THEN UNCHANGED <<seeded, kills_history, jumps_history, sov_history,
                            stamps, answer>>
           ELSE /\ seeded' = TRUE
                /\ answer' = resp
                /\ stamps' = {lqt}
                /\ kills_history' = PanelOf(lqt, ReindexKills(resp.kills, ids))
                /\ jumps_history' = PanelOf(lqt, ReindexJumps(resp.jumps, ids))
                /\ sov_history' = PanelOf(lqt, ReindexSov(resp.sov, ids))
        /\ pc' = IF tries1 >= retry THEN "failed"
                 ELSE IF lqt = None THEN "constructing" ELSE "ready"
        /\ nq' = nq + 1
        /\ nc' = nc + ClientCalls(o)
        /\ last' = Op("init", o, t)
        /\ UNCHANGED <<systems_df, ret, updates, refreshes, req>>

\* the API answers that matter for an outcome: a query that raises hands no
\* table to its caller
Answers(o) == IF o = "ok" THEN Responses ELSE {NoResponse}

InitAttempt ==
    \E lat \in Latencies, o \in Outcomes :
        \E resp \in Answers(o) : InitPass(lat, o, resp)

\* ------------------------------------------------------------------ update()
\* Timedelta.seconds
Seconds(delta) == delta % DaySeconds

\* the staleness test of line 130
Stale(cur_time, lqt) == Seconds(cur_time - lqt) > update_interval

\* the eviction tests of lines 140, 142 and 144
KillsFull(kills) == PanelLen(kills) >= max_frames

\* the test of line 142 with > in place of >=
JumpsFullStrict(jumps) == PanelLen(jumps) > max_frames

JumpsFull(jumps) == PanelLen(jumps) >= max_frames
SovFull(kills, sov) == PanelLen(kills) >= max_frames

\* one call of update() (lines 129-147): the clock is read `step` seconds
\* after its previous reading; a query, if attempted, takes `lat` seconds and
\* ends as `o`, the API answering `resp`
UpdateStep(step, lat, o, resp) ==
    LET ids == SystemIds(systems_df)
        cur_time == now + step
        attempt == Stale(cur_time, last_query_time)
        t == cur_time + lat
        lqt == IF attempt THEN QueryTime(o, last_query_time, t)
               ELSE last_query_time
        store == attempt /\ ~QueryRaises(o)
        kills1 == PanelSet(kills_history, lqt, ReindexKills(resp.kills, ids))
        jumps1 == PanelSet(jumps_history, lqt, ReindexJumps(resp.jumps, ids))
        sov1 == PanelSet(sov_history, lqt, ReindexSov(resp.sov, ids))
        kills2 == IF KillsFull(kills1)
                  THEN PanelDel(kills1, PanelMin(kills1)) ELSE kills1
        jumps2 == IF JumpsFull(jumps1)
                  THEN PanelDel(jumps1, PanelMin(jumps1)) ELSE jumps1
        sov2 == IF SovFull(kills2, sov1)
                THEN PanelDel(sov1, PanelMin(sov1)) ELSE sov1
    IN  /\ pc = "ready"
        /\ now' = IF attempt THEN t ELSE cur_time
        /\ last_query_time' = lqt
        /\ IF store /\ seeded
           THEN /\ kills_history' = kills2
                /\ jumps_history' = jumps2
                /\ sov_history' = sov2
                /\ refreshes' = refreshes + 1
                /\ stamps' = stamps \cup {lqt}
                /\ answer' = resp
           ELSE UNCHANGED <<kills_history, jumps_history, sov_history,
                            refreshes, stamps, answer>>
        /\ ret' = IF store /\ ~seeded
                  THEN Raised("AttributeError")
                  ELSE Latest(systems_df, seeded, lqt, kills_history',
                              jumps_history')
        /\ nq' = IF attempt THEN 1 ELSE 0
        /\ nc' = IF attempt THEN ClientCalls(o) ELSE 0
        /\ last' = Op("update", IF attempt THEN o ELSE "none", cur_time)
        /\ updates' = updates + 1
        /\ UNCHANGED <<pc, tries, systems_df, seeded, req>>

UpdateCall ==
    /\ updates < MaxUpdates
    /\ \E step \in ClockSteps :
          IF Stale(now + step, last_query_time)
          THEN \E lat \in Latencies, o \in Outcomes :
                 \E resp \in Answers(o) : UpdateStep(step, lat, o, resp)
          ELSE UpdateStep(step, 0, "ok", NoResponse)

\* update() as the steady polling run calls it: every call finds the data
\* stale; queries fail only once the histories are close to capacity
SteadyUpdate ==
    /\ updates < SteadyUpdates
    /\ \E o \in Outcomes :
        /\ \/ o = "ok"
           \/ /\ PanelLen(kills_history) >= max_frames - 1
              /\ updates - refreshes < MaxSteadyFailures
        /\ UpdateStep(SteadyStep, 0, o, SteadyResponse)

\* ------------------------------------------------------------------ latest()
\* latest() as it would be if it went to the API before answering
LatestCallQuerying ==
    /\ pc = "ready"
    /\ ret' = Latest(systems_df, seeded, last_query_time, kills_history,
                     jumps_history)
    /\ nq' = 1
    /\ nc' = 3
    /\ last' = Op("latest", "ok", now)
    /\ UNCHANGED <<pc, tries, now, systems_df, last_query_time, seeded,
                   kills_history, jumps_history, sov_history, updates,
                   refreshes, stamps, answer, req>>

\* a direct call of latest() (lines 98-117)
LatestCall ==
    /\ pc = "ready"
    /\ ret' = Latest(systems_df, seeded, last_query_time, kills_history,
                     jumps_history)
    /\ nq' = 0
    /\ nc' = 0
    /\ last' = Op("latest", "none", now)
    /\ UNCHANGED <<pc, tries, now, systems_df, last_query_time, seeded,
                   kills_history, jumps_history, sov_history, updates,
                   refreshes, stamps, answer, req>>

\* ------------------------------------------------------------------ threads
\* update() run by a request thread of a threaded server: the engine is a
\* module-level object shared by the handlers and update() takes no lock, so
\* another thread may run between any two of the steps below
Thread(r, position, cur_time, resp) ==
    [req EXCEPT ![r] = [pc |-> position, cur_time |-> cur_time, resp |-> resp]]

\* lines 129-130: read the clock and test staleness
ReqEnter(r) ==
    /\ pc = "ready"
    /\ req[r].pc = "idle"
    /\ updates < MaxUpdates
    /\ \E step \in {0, SteadyStep} :
        /\ now' = now + step
        /\ req' = Thread(r, IF Stale(now + step, last_query_time)
                            THEN "query" ELSE "latest",
                         now + step, NoResponse)
    /\ updates' = updates + 1
    /\ UNCHANGED <<pc, tries, systems_df, last_query_time, seeded,
                   kills_history, jumps_history, sov_history, ret, last, nq,
                   nc, refreshes, stamps, answer>>

\* lines 131-134: query(); an exception is swallowed
ReqQuery(r) ==
    /\ req[r].pc = "query"
    /\ \E o \in Outcomes : \E resp \in Answers(o) :
        /\ last_query_time' = QueryTime(o, last_query_time, now)
        /\ req' = Thread(r, IF QueryRaises(o) THEN "latest" ELSE "write",
                         req[r].cur_time, resp)
        /\ nc' = ClientCalls(o)
        /\ last' = Op("update", o, req[r].cur_time)
    /\ nq' = 1
    /\ UNCHANGED <<pc, tries, now, systems_df, seeded, kills_history,
                   jumps_history, sov_history, ret, updates, refreshes,
                   stamps, answer>>

\* lines 136-138: store the three tables under the current last_query_time
ReqWrite(r) ==
    LET ids == SystemIds(systems_df)
        resp == req[r].resp
    IN  /\ req[r].pc = "write"
        /\ IF seeded
           THEN /\ kills_history' = PanelSet(kills_history, last_query_time,
                                             ReindexKills(resp.kills, ids))
                /\ jumps_history' = PanelSet(jumps_history, last_query_time,
                                             ReindexJumps(resp.jumps, ids))
                /\ sov_history' = PanelSet(sov_history, last_query_time,
                                           ReindexSov(resp.sov, ids))
                /\ refreshes' = refreshes + 1
                /\ stamps' = stamps \cup {last_query_time}
                /\ answer' = resp
                /\ req' = Thread(r, "evict", req[r].cur_time, NoResponse)
                /\ UNCHANGED ret
           ELSE /\ ret' = Raised("AttributeError")
                /\ req' = Thread(r, "idle", 0, NoResponse)
                /\ UNCHANGED <<kills_history, jumps_history, sov_history,
                               refreshes, stamps, answer>>
        /\ UNCHANGED <<pc, tries, now, systems_df, last_query_time, seeded,
                       last, nq, nc, updates>>

\* lines 140-145: evict
ReqEvict(r) ==
    LET kills2 == IF KillsFull(kills_history)
                  THEN PanelDel(kills_history, PanelMin(kills_history))
                  ELSE kills_history
    IN  /\ req[r].pc = "evict"
        /\ kills_history' = kills2
        /\ jumps_history' = IF JumpsFull(jumps_history)
                            THEN PanelDel(jumps_history, PanelMin(jumps_history))
                            ELSE jumps_history
        /\ sov_history' = IF SovFull(kills2, sov_history)
                          THEN PanelDel(sov_history, PanelMin(sov_history))
                          ELSE sov_history
        /\ req' = Thread(r, "latest", req[r].cur_time, NoResponse)
        /\ UNCHANGED <<pc, tries, now, systems_df, last_query_time, seeded,
                       ret, last, nq, nc, updates, refreshes, stamps, answer>>

\* line 147: return self.latest()
ReqLatest(r) ==
    /\ req[r].pc = "latest"
    /\ ret' = Latest(systems_df, seeded, last_query_time, kills_history,
                     jumps_history)
    /\ req' = Thread(r, "idle", 0, NoResponse)
    /\ UNCHANGED <<pc, tries, now, systems_df, last_query_time, seeded,
                   kills_history, jumps_history, sov_history, last, nq, nc,
                   updates, refreshes, stamps, answer>>

\* ------------------------------------------------------------------ specs
\* EveData() whose first query succeeds, on any of the enumerated topologies
MergeConstruct == \E resp \in Responses : InitPass(0, "ok", resp)

InitMerge == Boot(MergeTopologies)

NextMerge == MergeConstruct \/ LatestCall

SpecMerge == InitMerge /\ [][NextMerge]_vars

NextThreads ==
    \/ MergeConstruct
    \/ \E r \in Requests :
          ReqEnter(r) \/ ReqQuery(r) \/ ReqWrite(r) \/ ReqEvict(r) \/ ReqLatest(r)

SpecThreads == Init /\ [][NextThreads]_vars

Next == InitAttempt \/ UpdateCall \/ LatestCall

Spec == Init /\ [][Next]_vars

NextSteady == InitAttempt \/ SteadyUpdate \/ LatestCall

SpecSteady == Init /\ [][NextSteady]_vars

\* ------------------------------------------------------------------ claims
\* a step is a call of update() / a pass of the constructor's loop
IsUpdate == updates' = updates + 1
QueryFailed(op) == op.outcome \notin {"ok", "none"}

\* C1: if every query() of the construction fails, the constructor has invoked
\* query() exactly `retry` times when it ends, and it ends with RuntimeError
C1_RetryBound ==
    (last.op = "init" /\ pc # "constructing" /\ ~seeded)
        => (pc = "failed" /\ nq = retry)

\* C2: a call of update() does not touch the API when the time elapsed since
\* last_query_time is <= update_interval, and makes exactly one query when it
\* is greater (a day or more included); stated for the calls whose clock
\* reading is not earlier than last_query_time
C2_StalenessGate ==
    [][IsUpdate =>
        LET elapsed == last'.cur_time - last_query_time
        IN  elapsed >= 0 =>
              /\ elapsed <= update_interval => (nq' = 0 /\ nc' = 0)
              /\ elapsed > update_interval => nq' = 1]_vars

\* C3: when the query attempted by update() fails, update() returns what
\* latest() would have returned before the call and the three histories are
\* unchanged
C3_RefreshIsolation ==
    [][(IsUpdate /\ seeded /\ QueryFailed(last')) =>
        /\ ret' = Latest(systems_df, seeded, last_query_time, kills_history,
                         jumps_history)
        /\ UNCHANGED <<kills_history, jumps_history, sov_history>>]_vars

\* C4: on a successfully constructed engine no call of update() ends with an
\* error; every call returns a (timestamp, merged table) pair
C4_FailureContained ==
    (last.op = "update" /\ seeded) => ret.status = "returned"

\* the n largest timestamps of a set
Newest(S, n) == {t \in S : Cardinality({u \in S : u > t}) < n}

\* C5: after more than max_frames successful refreshes each history holds
\* exactly max_frames snapshots, those of the max_frames most recent timestamps
C5_EvictionExact ==
    refreshes > max_frames =>
        \A h \in {kills_history, jumps_history, sov_history} :
            /\ PanelLen(h) = max_frames
            /\ DOMAIN h = Newest(stamps, max_frames)

\* C6: after construction each of the three histories holds at most max_frames
\* snapshots
C6_CapacityBound ==
    seeded =>
        /\ PanelLen(kills_history) <= max_frames
        /\ PanelLen(jumps_history) <= max_frames
        /\ PanelLen(sov_history) <= max_frames

\* C7: the constructor either raises, or returns an engine with
\* last_query_time set and one snapshot per history, stored under it
C7_NoHalfInit ==
    (last.op = "init" /\ pc # "constructing") =>
        \/ pc = "failed"
        \/ /\ pc = "ready"
           /\ last_query_time # None
           /\ seeded
           /\ DOMAIN kills_history = {last_query_time}
           /\ DOMAIN jumps_history = {last_query_time}
           /\ DOMAIN sov_history = {last_query_time}

\* C8: last_query_time changes only in a step whose query() returned its
\* tables; a query() that fails leaves it as it was
C8_QueryAtomic ==
    [][last_query_time' # last_query_time => last'.outcome = "ok"]_vars

\* C9: every call of update() returns (last_query_time, merge of the topology
\* with the kills and jumps snapshots stored under last_query_time), taken in
\* the state the call leaves
C9_ReturnsLatest ==
    last.op = "update" =>
        /\ ret.status = "returned"
        /\ ret.ts = last_query_time
        /\ last_query_time \in DOMAIN kills_history \cap DOMAIN jumps_history
        /\ ret.merged = Merge(systems_df, kills_history[last_query_time],
                              jumps_history[last_query_time])

\* C10: latest() makes no query and no API call, leaves last_query_time, the
\* histories and the topology as they are, and returns what the latest()
\* call right before it returned
C10_LatestPure ==
    [][last'.op = "latest" =>
        /\ nq' = 0
        /\ nc' = 0
        /\ UNCHANGED <<last_query_time, kills_history, jumps_history,
                       sov_history, systems_df, seeded>>
        /\ ret' = Latest(systems_df, seeded, last_query_time, kills_history,
                         jumps_history)
        /\ last.op = "latest" => ret' = ret]_vars

\* latest() called on an engine that has refreshed, returning the merged table
C10_Witness ==
    /\ last.op = "latest"
    /\ refreshes >= 1
    /\ ret.status = "returned"
    /\ ret.ts = last_query_time

\* the topology columns of a merged row
TopologyPart(m) == Row(m.Entry_ID, m.Dest_ID, m.Dest_Region)

\* the one-to-one assignments of n output rows to n topology rows
Bijections(n) ==
    {f \in [1..n -> 1..n] : \A i, j \in 1..n : f[i] = f[j] => i = j}

NonDecreasing(rows) ==
    \A i, j \in DOMAIN rows : i < j => rows[i].Dest_Region <= rows[j].Dest_Region

\* C11: the merged output is non-decreasing in Dest_Region and rows of equal
\* Dest_Region keep the relative order they have in the topology
C11_SortStable ==
    ret.status = "returned" =>
        /\ Len(ret.merged) = Len(systems_df)
        /\ NonDecreasing(ret.merged)
        /\ \E f \in Bijections(Len(systems_df)) :
            /\ \A i \in DOMAIN ret.merged :
                 TopologyPart(ret.merged[i]) = systems_df[f[i]]
            /\ \A i, j \in DOMAIN ret.merged :
                 (i < j /\ ret.merged[i].Dest_Region = ret.merged[j].Dest_Region)
                    => f[i] < f[j]

\* C11 as amended: the merged output is non-decreasing in Dest_Region and
\* holds the topology rows, each once (no order promised among equal regions)
C11_SortedByRegion ==
    ret.status = "returned" =>
        /\ Len(ret.merged) = Len(systems_df)
        /\ NonDecreasing(ret.merged)
        /\ \E f \in Bijections(Len(systems_df)) :
             \A i \in DOMAIN ret.merged :
                 TopologyPart(ret.merged[i]) = systems_df[f[i]]

\* a merged table returned for a topology whose rows had to be reordered and
\* that has two rows of the same region
C11_Witness ==
    /\ ret.status = "returned"
    /\ Len(systems_df) >= 3
    /\ systems_df[1].Dest_Region > systems_df[2].Dest_Region
    /\ systems_df[2].Dest_Region = systems_df[3].Dest_Region
    /\ systems_df[2].Dest_ID > systems_df[3].Dest_ID

\* the values the API reported for a system, 0 when it reported none
ShipOf(id) == IF id \in DOMAIN answer.kills THEN answer.kills[id].ship ELSE 0
PodOf(id) == IF id \in DOMAIN answer.kills THEN answer.kills[id].pod ELSE 0
JumpsOf(id) == IF id \in DOMAIN answer.jumps THEN answer.jumps[id] ELSE 0

\* the merged row the claim asks for a topology row
MergedRow(row) ==
    [Entry_ID |-> row.Entry_ID,
     Dest_ID |-> row.Dest_ID,
     Dest_Region |-> row.Dest_Region,
     Entry_ShipKills |-> ShipOf(row.Entry_ID),
     Entry_PodKills |-> PodOf(row.Entry_ID),
     Entry_Jumps |-> JumpsOf(row.Entry_ID),
     Dest_ShipKills |-> ShipOf(row.Dest_ID),
     Dest_PodKills |-> PodOf(row.Dest_ID),
     Dest_Jumps |-> JumpsOf(row.Dest_ID)]

\* C12: the merged output has one row per topology row; its Entry_* fields
\* are the latest values of the row's Entry_ID and its Dest_* fields those of
\* the row's Dest_ID, 0 where the API reported nothing for the id
C12_MergeComplete ==
    ret.status = "returned" =>
        /\ Len(ret.merged) = Len(systems_df)
        /\ \E f \in Bijections(Len(systems_df)) :
             \A i \in DOMAIN ret.merged :
                 ret.merged[i] = MergedRow(systems_df[f[i]])

\* a merged table returned for a topology with a repeated Entry_ID and a
\* repeated Dest_ID, one id with data and one without
C12_Witness ==
    /\ ret.status = "returned"
    /\ Len(systems_df) = 3
    /\ systems_df[1].Entry_ID = systems_df[3].Entry_ID
    /\ systems_df[1].Dest_ID = systems_df[2].Dest_ID
    /\ \E i \in DOMAIN ret.merged :
        /\ ret.merged[i].Entry_ShipKills > 0
        /\ ret.merged[i].Dest_ID \notin DOMAIN answer.kills
        /\ ret.merged[i].Dest_ShipKills = 0

\* the largest key of a Panel
PanelMax(panel) == CHOOSE t \in DOMAIN panel : \A u \in DOMAIN panel : u <= t

\* C13: after a successful construction last_query_time is a key of the kills
\* and of the jumps history, and the largest key of each
C13_Bookkeeping ==
    seeded =>
        /\ last_query_time \in DOMAIN kills_history
        /\ last_query_time \in DOMAIN jumps_history
        /\ last_query_time = PanelMax(kills_history)
        /\ last_query_time = PanelMax(jumps_history)

\* C14: a query() that returns never sets last_query_time to a value earlier
\* than the one it had
C14_Monotonic ==
    [][last'.outcome = "ok" => last_query_time' >= last_query_time]_vars

\* C15: the constructor makes at most `retry` queries; it returns exactly when
\* a query succeeded, on the first success, and raises otherwise
C15_ConstructionBound ==
    last.op = "init" =>
        /\ nq <= retry
        /\ pc = "constructing" => (nq < retry /\ ~seeded)
        /\ pc = "ready" => (seeded /\ last.outcome = "ok")
        /\ pc = "failed" => (~seeded /\ nq = retry)

\* the requests between the staleness test and the end of the eviction
Refreshing == {r \in Requests : req[r].pc \in {"query", "write", "evict"}}

\* C16: two requests never refresh at the same time: the test / query / write /
\* evict sequence of one is over before the other starts its own
C16_NoInterleaving == Cardinality(Refreshing) <= 1

\* C17: after construction the kills history and the jumps history hold the
\* same set of timestamps
C17_Aligned == seeded => DOMAIN kills_history = DOMAIN jumps_history

\* both histories at capacity after evictions, a query having failed on the way
C17_Witness ==
    /\ seeded
    /\ refreshes >= max_frames
    /\ updates > refreshes
    /\ last.op = "update"
    /\ last.outcome = "ok"
    /\ PanelLen(kills_history) = max_frames - 1
    /\ PanelLen(jumps_history) = max_frames - 1
    /\ Cardinality(stamps) > max_frames

====
